---------------------------- MODULE Spec2Model ----------------------------
(***************************************************************************)
(* PEP 425 compatibility tags as computed by pip/pep425tags.py and         *)
(* pip/platform/__init__.py.                                               *)
(*                                                                         *)
(* Python strings are TLA+ strings (TLC evaluates Len, SubSeq and \o on    *)
(* them), lists and tuples are sequences, and a tag is the triple          *)
(* <<interpreter, abi, platform>>.  The facts the module reads from the    *)
(* running interpreter (sys, sysconfig, imp, distutils, the linux          *)
(* distribution probe) are the fields of the record env.                   *)
(***************************************************************************)
EXTENDS Integers, Sequences, FiniteSets, TLC

VARIABLES env, loaded, supported_tags, supported_tags_noarch, last

vars == <<env, loaded, supported_tags, supported_tags_noarch, last>>

(***************************************************************************)
(* Python values                                                           *)
(***************************************************************************)

\* Python's None where a string is expected; no real string contains "<".
None == "<None>"

\* `not x` for an optional string: None and '' are both falsy.
Falsy(x) == x = None \/ x = ""

Digits == "0123456789"

AsciiLower == "abcdefghijklmnopqrstuvwxyz"

AsciiUpper == "ABCDEFGHIJKLMNOPQRSTUVWXYZ"

CharAt(s, i) == SubSeq(s, i, i)

\* c in s, for a one-character string c
InStr(c, s) == \E i \in 1..Len(s) : CharAt(s, i) = c

\* s.startswith(p)
StartsWith(s, p) == Len(s) >= Len(p) /\ SubSeq(s, 1, Len(p)) = p

\* s.find(c) + 1: position of the first c in s, 0 when there is none
Find(s, c) ==
    IF InStr(c, s)
    THEN CHOOSE i \in 1..Len(s) :
            /\ CharAt(s, i) = c
            /\ \A j \in 1..(i - 1) : CharAt(s, j) # c
    ELSE 0

\* s.split(c)[0]
SplitFirst(s, c) ==
    IF Find(s, c) = 0 THEN s ELSE SubSeq(s, 1, Find(s, c) - 1)

\* s.split(c, 1)[-1]
SplitOnceLast(s, c) ==
    IF Find(s, c) = 0 THEN s ELSE SubSeq(s, Find(s, c) + 1, Len(s))

\* s.split(c, 2)[1], for a string with at least one c
SplitTwiceSecond(s, c) ==
    SplitFirst(SplitOnceLast(s, c), c)

\* c.lower() for one character
LowerChar(c) ==
    IF InStr(c, AsciiUpper)
    THEN CharAt(AsciiLower, CHOOSE i \in 1..Len(AsciiUpper) : CharAt(AsciiUpper, i) = c)
    ELSE c

\* str(n), '%i' % n for n >= 0
RECURSIVE IntToStr(_)
IntToStr(n) ==
    IF n < 10
    THEN CharAt(Digits, n + 1)
    ELSE IntToStr(n \div 10) \o CharAt(Digits, (n % 10) + 1)

DigitValue(c) == (CHOOSE i \in 1..Len(Digits) : CharAt(Digits, i) = c) - 1

\* the regular expression \d+ matches the whole of s
IsDigits(s) == Len(s) > 0 /\ \A i \in 1..Len(s) : InStr(CharAt(s, i), Digits)

\* int(s) for a string of digits
RECURSIVE StrToInt(_)
StrToInt(s) ==
    IF Len(s) = 0
    THEN 0
    ELSE 10 * StrToInt(SubSeq(s, 1, Len(s) - 1)) + DigitValue(CharAt(s, Len(s)))

\* ''.join(map(str, t)) for a tuple of ints
RECURSIVE JoinInts(_)
JoinInts(t) ==
    IF Len(t) = 0 THEN "" ELSE IntToStr(Head(t)) \o JoinInts(Tail(t))

\* list(reversed(l))
Reversed(l) == [i \in 1..Len(l) |-> l[Len(l) + 1 - i]]

\* Python's order on strings: lexicographic by code point.
CodeOrder == "-.0123456789ABCDEFGHIJKLMNOPQRSTUVWXYZ_abcdefghijklmnopqrstuvwxyz"

Code(c) == CHOOSE i \in 1..Len(CodeOrder) : CharAt(CodeOrder, i) = c

StrLess(a, b) ==
    \/ Len(a) < Len(b) /\ SubSeq(b, 1, Len(a)) = a
    \/ \E i \in 1..Len(a) :
          /\ i <= Len(b)
          /\ SubSeq(a, 1, i - 1) = SubSeq(b, 1, i - 1)
          /\ Code(CharAt(a, i)) < Code(CharAt(b, i))

\* sorted(list(S)) for a set of strings
RECURSIVE Sorted(_)
Sorted(S) ==
    IF S = {}
    THEN <<>>
    ELSE LET m == CHOOSE x \in S : \A y \in S \ {x} : StrLess(x, y)
         IN  <<m>> \o Sorted(S \ {m})

(***************************************************************************)
(* pep425tags.py                                                           *)
(***************************************************************************)

\* string.ascii_letters + string.digits
AsciiLettersDigits == AsciiLower \o AsciiUpper \o Digits

RECURSIVE normalize(_)
normalize(s) ==
    IF Len(s) = 0
    THEN ""
    ELSE LET c == LowerChar(CharAt(s, 1))
         IN  (IF InStr(c, AsciiLettersDigits) THEN c ELSE "_")
             \o normalize(SubSeq(s, 2, Len(s)))

\* sysconfig.get_config_var(var); an IOError is turned into None
get_config_var(var, e) == e.config[var]

get_abbr_impl(e) ==
    IF e.has_pypy_version_info
    THEN "pp" \o IntToStr(e.version_info[1])
    ELSE IF StartsWith(e.sys_platform, "java")
    THEN "jy"
    ELSE IF e.sys_platform = "cli"
    THEN "ip"
    ELSE "cp"

get_impl_version_info(e) ==
    IF get_abbr_impl(e) = "pp"
    THEN <<e.version_info[1], e.pypy_version_info[1], e.pypy_version_info[2]>>
    ELSE <<e.version_info[1], e.version_info[2]>>

get_impl_ver(e) ==
    LET impl_ver == get_config_var("py_version_nodot", e)
    IN  IF Falsy(impl_ver) \/ get_abbr_impl(e) = "pp"
        THEN JoinInts(get_impl_version_info(e))
        ELSE impl_ver

\* 0x10ffff
WideMaxUnicode == 1114111

\* get_abi_tag with the wide-unicode flag kept for versions before 3.3
\* only, as the definition of lines 84-115 does.
get_abi_tag_u_before_33(e) ==
    LET soabi == get_config_var("SOABI", e)
    IN  IF Falsy(soabi)
        THEN LET d == IF e.has_pydebug /\ e.pydebug THEN "d" ELSE ""
                 u == IF e.maxunicode = WideMaxUnicode
                         /\ (e.version_info[1] < 3
                             \/ (e.version_info[1] = 3 /\ e.version_info[2] < 3))
                      THEN "u" ELSE ""
             IN  get_abbr_impl(e) \o get_impl_ver(e) \o d \o "m" \o u
        ELSE IF StartsWith(soabi, "cpython-")
        THEN "cp" \o SplitOnceLast(soabi, "-")
        ELSE None

\* The second definition of get_abi_tag, which replaces the first one at
\* import time; called by get_supported with default=None.
get_abi_tag(e) ==
    LET soabi == get_config_var("SOABI", e)
    IN  IF Falsy(soabi)
        THEN LET d == IF e.has_pydebug /\ e.pydebug THEN "d" ELSE ""
                 u == IF e.maxunicode = WideMaxUnicode THEN "u" ELSE ""
             IN  get_abbr_impl(e) \o get_impl_ver(e) \o d \o "m" \o u
        ELSE IF StartsWith(soabi, "cpython-")
        THEN "cp" \o SplitOnceLast(soabi, "-")
        ELSE None

(***************************************************************************)
(* platform/__init__.py                                                    *)
(***************************************************************************)

\* Python's None where linux.get_specific_platform() returns a 4-tuple
NoneTuple == <<None>>

get_specific_platform(e) ==
    IF SplitFirst(e.plat, "-") = "linux"
    THEN e.linux_specific_platform
    ELSE NoneTuple

\* get_platforms without the final reversal: 'any' first.
get_platforms_generic_first(e) ==
    LET plat      == e.plat
        spec_plat == get_specific_platform(e)
        base      == <<"any", normalize(plat)>>
    IN  IF spec_plat # NoneTuple
        THEN LET major_version ==
                     normalize(plat \o "-" \o spec_plat[1] \o "-" \o spec_plat[2])
                 full_version ==
                     normalize(plat \o "-" \o spec_plat[1] \o "-" \o spec_plat[3])
             IN  IF major_version # full_version
                 THEN base \o <<major_version, full_version>>
                 ELSE base \o <<major_version>>
        ELSE IF StartsWith(plat, "linux")
        THEN base \o <<normalize(plat \o "-" \o "unknown_distribution"
                                      \o "-" \o "unknown_version")>>
        ELSE base

get_platforms(e) ==
    LET plat      == e.plat
        spec_plat == get_specific_platform(e)
        base      == <<"any", normalize(plat)>>
        platforms ==
            IF spec_plat # NoneTuple
            THEN LET dist          == spec_plat[1]
                     major         == spec_plat[2]
                     full          == spec_plat[3]
                     major_version == normalize(plat \o "-" \o dist \o "-" \o major)
                     full_version  == normalize(plat \o "-" \o dist \o "-" \o full)
                 IN  IF major_version # full_version
                     THEN base \o <<major_version, full_version>>
                     ELSE base \o <<major_version>>
            ELSE IF StartsWith(plat, "linux")
            THEN base \o <<normalize(plat \o "-" \o "unknown_distribution"
                                          \o "-" \o "unknown_version")>>
            ELSE base
    IN  Reversed(platforms)


\* _osx_arch_pat = re.compile(r'(.+)_(\d+)_(\d+)_(.+)'): the positions
\* <<i, j, k>> of three underscores that cut s into a non-empty name, two
\* runs of digits and a non-empty rest.
Underscores(s) == {i \in 1..Len(s) : CharAt(s, i) = "_"}

OsxArchCuts(s) ==
    {c \in Underscores(s) \X Underscores(s) \X Underscores(s) :
        /\ 1 < c[1] /\ c[1] < c[2] /\ c[2] < c[3] /\ c[3] < Len(s)
        /\ IsDigits(SubSeq(s, c[1] + 1, c[2] - 1))
        /\ IsDigits(SubSeq(s, c[2] + 1, c[3] - 1))}

\* _osx_arch_pat.match(s).groups(), NoneTuple when there is no match.  The
\* first group is greedy: the match found is the one with the longest name.
osx_arch_match(s) ==
    LET cuts == OsxArchCuts(s)
    IN  IF cuts = {}
        THEN NoneTuple
        ELSE LET c == CHOOSE x \in cuts : \A y \in cuts : y[1] <= x[1]
             IN  <<SubSeq(s, 1, c[1] - 1),
                   SubSeq(s, c[1] + 1, c[2] - 1),
                   SubSeq(s, c[2] + 1, c[3] - 1),
                   SubSeq(s, c[3] + 1, Len(s))>>

\* actual_arches of get_supported
actual_arches(actual_arch) ==
    <<actual_arch>>
    \o (IF actual_arch \in {"i386", "ppc"} THEN <<"fat">> ELSE <<>>)
    \o (IF actual_arch \in {"i386", "x86_64"} THEN <<"intel">> ELSE <<>>)
    \o (IF actual_arch \in {"i386", "ppc", "x86_64"} THEN <<"fat3">> ELSE <<>>)
    \o (IF actual_arch \in {"ppc64", "x86_64"} THEN <<"fat64">> ELSE <<>>)
    \o (IF actual_arch \in {"i386", "x86_64", "intel", "ppc", "ppc64"}
        THEN <<"universal">> ELSE <<>>)

\* for m in reversed(range(int(minor) + 1)): for a in actual_arches: ...
RECURSIVE osx_minor_loop(_, _, _, _)
osx_minor_loop(name, major, m, arches_) ==
    IF m < 0
    THEN <<>>
    ELSE [i \in 1..Len(arches_) |->
             name \o "_" \o major \o "_" \o IntToStr(m) \o "_" \o arches_[i]]
         \o osx_minor_loop(name, major, m - 1, arches_)

\* expand_arch with range(int(minor)) in place of range(int(minor) + 1).
expand_arch_minor_excluded(arch, e) ==
    IF e.sys_platform = "darwin"
    THEN LET match == osx_arch_match(arch)
         IN  IF match # NoneTuple
             THEN osx_minor_loop(match[1], match[2], StrToInt(match[3]) - 1,
                                 actual_arches(match[4]))
             ELSE <<arch>>
    ELSE <<arch>>

\* What one pass of `for arch in platforms` appends to arches.
expand_arch(arch, e) ==
    IF e.sys_platform = "darwin"
    THEN LET match == osx_arch_match(arch)
         IN  IF match # NoneTuple
             THEN osx_minor_loop(match[1], match[2], StrToInt(match[3]),
                                 actual_arches(match[4]))
             ELSE <<arch>>
    ELSE <<arch>>

RECURSIVE arches_loop(_, _)
arches_loop(platforms, e) ==
    IF Len(platforms) = 0
    THEN <<>>
    ELSE expand_arch(Head(platforms), e) \o arches_loop(Tail(platforms), e)

\* arches of get_supported
get_arches(e) == arches_loop(get_platforms(e), e)

\* Python's None where a list of versions is expected
NoVersions == <<None>>

\* for minor in range(version_info[-1], -1, -1): versions.append(...)
RECURSIVE versions_loop(_, _)
versions_loop(major, minor) ==
    IF minor < 0
    THEN <<>>
    ELSE <<JoinInts(major \o <<minor>>)>> \o versions_loop(major, minor - 1)

\* derived_versions with range(version_info[-1], 0, -1): stops before 0.
derived_versions_stop_at_one(e) ==
    LET version_info == get_impl_version_info(e)
        all == versions_loop(SubSeq(version_info, 1, Len(version_info) - 1),
                             version_info[Len(version_info)])
    IN  IF Len(all) > 1 THEN SubSeq(all, 1, Len(all) - 1) ELSE all

\* versions of get_supported when the caller passes None
derived_versions(e) ==
    LET version_info == get_impl_version_info(e)
    IN  versions_loop(SubSeq(version_info, 1, Len(version_info) - 1),
                      version_info[Len(version_info)])

\* abi3s of get_supported
get_abi3s(e) ==
    {SplitTwiceSecond(e.suffixes[i], ".") :
        i \in {j \in 1..Len(e.suffixes) : StartsWith(e.suffixes[j], ".abi")}}

\* abis of get_supported
get_abis(e) ==
    LET abi == get_abi_tag(e)
    IN  (IF Falsy(abi) THEN <<>> ELSE <<abi>>)
        \o Sorted(get_abi3s(e))
        \o <<"none">>

\* for abi in abis: for arch in arches: supported.append(...)
abi_arch_loop(impl, versions, abis, arches) ==
    [k \in 1..(Len(abis) * Len(arches)) |->
        <<impl \o versions[1],
          abis[((k - 1) \div Len(arches)) + 1],
          arches[((k - 1) % Len(arches)) + 1]>>]

\* for i, version in enumerate(versions): the tag of the version and,
\* after the first one, the tag of the major version
RECURSIVE pure_loop(_, _, _)
pure_loop(prefix, versions, i) ==
    IF i > Len(versions)
    THEN <<>>
    ELSE <<<<prefix \o versions[i], "none", "any">>>>
         \o (IF i = 1
             THEN <<<<prefix \o CharAt(versions[1], 1), "none", "any">>>>
             ELSE <<>>)
         \o pure_loop(prefix, versions, i + 1)

\* versions[0] is evaluated with an empty list: IndexError
get_supported_raises(versions_arg, noarch) ==
    versions_arg = <<>> /\ ~noarch

\* get_supported with the platform-specific block guarded by the version
\* list instead of by noarch alone.
get_supported_arch_always(versions_arg, noarch, e) ==
    LET versions == IF versions_arg = NoVersions
                    THEN derived_versions(e)
                    ELSE versions_arg
        impl     == get_abbr_impl(e)
        abis     == get_abis(e)
        arches   == get_arches(e)
        arch     == arches[Len(arches)]
        binary   == IF ~noarch \/ Len(versions) > 0
                    THEN abi_arch_loop(impl, versions, abis, arches)
                         \o <<<<"py" \o CharAt(versions[1], 1), "none", arch>>>>
                    ELSE <<>>
    IN  binary \o pure_loop(impl, versions, 1) \o pure_loop("py", versions, 1)

\* The list get_supported returns when it does not raise.
get_supported(versions_arg, noarch, e) ==
    LET versions == IF versions_arg = NoVersions
                    THEN derived_versions(e)
                    ELSE versions_arg
        impl     == get_abbr_impl(e)
        abis     == get_abis(e)
        arches   == get_arches(e)
        \* after `for arch in arches`, arch is the last element of arches
        arch     == arches[Len(arches)]
        binary   == IF ~noarch
                    THEN abi_arch_loop(impl, versions, abis, arches)
                         \o <<<<"py" \o CharAt(versions[1], 1), "none", arch>>>>
                    ELSE <<>>
    IN  binary \o pure_loop(impl, versions, 1) \o pure_loop("py", versions, 1)


(***************************************************************************)
(* The host: what sys, sysconfig, imp, distutils and the linux             *)
(* distribution probe report.                                              *)
(***************************************************************************)

\* Longest explicit version list a caller passes to get_supported.
MaxVersions == 2

Interpreters ==
    { \* CPython 3.8 whose sysconfig has no SOABI
      [has_pypy_version_info |-> FALSE, pypy_version_info |-> <<0, 0>>,
       version_info |-> <<3, 8>>,
       config |-> [py_version_nodot |-> "38", SOABI |-> None],
       has_pydebug |-> FALSE, pydebug |-> FALSE, maxunicode |-> WideMaxUnicode,
       suffixes |-> <<".abi3.so", ".so">>, jython |-> FALSE, ironpython |-> FALSE],
      \* CPython 3.8 with the multiarch SOABI
      [has_pypy_version_info |-> FALSE, pypy_version_info |-> <<0, 0>>,
       version_info |-> <<3, 8>>,
       config |-> [py_version_nodot |-> "38", SOABI |-> "cpython-38-x86_64-linux-gnu"],
       has_pydebug |-> FALSE, pydebug |-> FALSE, maxunicode |-> WideMaxUnicode,
       suffixes |-> <<".cpython-38-x86_64-linux-gnu.so", ".abi3.so", ".so">>,
       jython |-> FALSE, ironpython |-> FALSE],
      \* CPython 3.3
      [has_pypy_version_info |-> FALSE, pypy_version_info |-> <<0, 0>>,
       version_info |-> <<3, 3>>,
       config |-> [py_version_nodot |-> "33", SOABI |-> "cpython-33m"],
       has_pydebug |-> FALSE, pydebug |-> FALSE, maxunicode |-> WideMaxUnicode,
       suffixes |-> <<".cpython-33m.so", ".abi3.so", ".so">>,
       jython |-> FALSE, ironpython |-> FALSE],
      \* CPython 2.7, narrow unicode, sysconfig unreadable
      [has_pypy_version_info |-> FALSE, pypy_version_info |-> <<0, 0>>,
       version_info |-> <<2, 7>>,
       config |-> [py_version_nodot |-> None, SOABI |-> None],
       has_pydebug |-> FALSE, pydebug |-> FALSE, maxunicode |-> 65535,
       suffixes |-> <<".so", "module.so">>, jython |-> FALSE, ironpython |-> FALSE],
      \* CPython 2.7 debug build exposing sys.pydebug
      [has_pypy_version_info |-> FALSE, pypy_version_info |-> <<0, 0>>,
       version_info |-> <<2, 7>>,
       config |-> [py_version_nodot |-> "27", SOABI |-> ""],
       has_pydebug |-> TRUE, pydebug |-> TRUE, maxunicode |-> WideMaxUnicode,
       suffixes |-> <<".so", "module.so">>, jython |-> FALSE, ironpython |-> FALSE],
      \* PyPy 4.1 (Python 2.7) with SOABI
      [has_pypy_version_info |-> TRUE, pypy_version_info |-> <<4, 1>>,
       version_info |-> <<2, 7>>,
       config |-> [py_version_nodot |-> "27", SOABI |-> "pypy-41"],
       has_pydebug |-> FALSE, pydebug |-> FALSE, maxunicode |-> WideMaxUnicode,
       suffixes |-> <<".pypy-41.so">>, jython |-> FALSE, ironpython |-> FALSE],
      \* PyPy 2.6 (Python 2.7) without SOABI
      [has_pypy_version_info |-> TRUE, pypy_version_info |-> <<2, 6>>,
       version_info |-> <<2, 7>>,
       config |-> [py_version_nodot |-> "27", SOABI |-> None],
       has_pydebug |-> FALSE, pydebug |-> FALSE, maxunicode |-> WideMaxUnicode,
       suffixes |-> <<".so">>, jython |-> FALSE, ironpython |-> FALSE],
      \* Jython 2.7
      [has_pypy_version_info |-> FALSE, pypy_version_info |-> <<0, 0>>,
       version_info |-> <<2, 7>>,
       config |-> [py_version_nodot |-> "27", SOABI |-> None],
       has_pydebug |-> FALSE, pydebug |-> FALSE, maxunicode |-> WideMaxUnicode,
       suffixes |-> <<>>, jython |-> TRUE, ironpython |-> FALSE],
      \* IronPython 2.7
      [has_pypy_version_info |-> FALSE, pypy_version_info |-> <<0, 0>>,
       version_info |-> <<2, 7>>,
       config |-> [py_version_nodot |-> None, SOABI |-> None],
       has_pydebug |-> FALSE, pydebug |-> FALSE, maxunicode |-> 65535,
       suffixes |-> <<>>, jython |-> FALSE, ironpython |-> TRUE] }

\* sys.platform, distutils.util.get_platform() and what
\* linux.get_specific_platform() returns: (dist, major, full, stability)
OperatingSystems ==
    { [sys_platform |-> "linux", plat |-> "linux-x86_64",
       linux_specific_platform |-> NoneTuple],
      [sys_platform |-> "linux", plat |-> "linux-x86_64",
       linux_specific_platform |-> <<"Ubuntu", "14", "14.04", "stable">>],
      [sys_platform |-> "linux2", plat |-> "linux-i686",
       linux_specific_platform |-> <<"debian", "8", "8", "stable">>],
      [sys_platform |-> "darwin", plat |-> "macosx-10.9-x86_64",
       linux_specific_platform |-> NoneTuple],
      [sys_platform |-> "darwin", plat |-> "macosx-10.4-i386",
       linux_specific_platform |-> NoneTuple],
      [sys_platform |-> "darwin", plat |-> "macosx-10.3-ppc",
       linux_specific_platform |-> NoneTuple],
      [sys_platform |-> "darwin", plat |-> "macosx-10.5-ppc64",
       linux_specific_platform |-> NoneTuple],
      [sys_platform |-> "darwin", plat |-> "macosx-10.6-intel",
       linux_specific_platform |-> NoneTuple],
      [sys_platform |-> "darwin", plat |-> "macosx-10.10-fat",
       linux_specific_platform |-> NoneTuple],
      [sys_platform |-> "darwin", plat |-> "darwin-13.4.0-x86_64",
       linux_specific_platform |-> NoneTuple],
      [sys_platform |-> "darwin", plat |-> "darwin-x86_64",
       linux_specific_platform |-> NoneTuple],
      [sys_platform |-> "win32", plat |-> "win-amd64",
       linux_specific_platform |-> NoneTuple] }

\* One host: an interpreter on an operating system.  Jython and IronPython
\* report their own sys.platform.
Host(i, o) ==
    [has_pypy_version_info |-> i.has_pypy_version_info,
     pypy_version_info |-> i.pypy_version_info,
     version_info |-> i.version_info,
     config |-> i.config,
     has_pydebug |-> i.has_pydebug,
     pydebug |-> i.pydebug,
     maxunicode |-> i.maxunicode,
     suffixes |-> i.suffixes,
     sys_platform |-> IF i.jython THEN "java1.8.0_201"
                      ELSE IF i.ironpython THEN "cli"
                      ELSE o.sys_platform,
     plat |-> o.plat,
     linux_specific_platform |-> o.linux_specific_platform]

Hosts == {Host(i, o) : i \in Interpreters, o \in OperatingSystems}


\* The version strings callers pass explicitly.
VersionStrings == {"38", "27"}

RECURSIVE ListsOver(_, _)
ListsOver(S, n) ==
    IF n = 0
    THEN {<<>>}
    ELSE ListsOver(S, n - 1)
         \cup {<<x>> \o l : x \in S, l \in {m \in ListsOver(S, n - 1) : Len(m) = n - 1}}

\* The versions argument of get_supported: None, or a list of versions.
VersionArgs == {NoVersions} \cup ListsOver(VersionStrings, MaxVersions)

(***************************************************************************)
(* The module as a state machine: the import, which binds the two          *)
(* module-level lists, and then calls of its functions, one at a time, in  *)
(* a process whose interpreter facts may be patched between calls.  last   *)
(* is the call in progress with the value it returns.                      *)
(***************************************************************************)

NoCall ==
    [op |-> "none", versions |-> NoVersions, noarch |-> FALSE, raised |-> FALSE,
     tags |-> <<>>, platforms |-> <<>>, abi |-> None]

Init ==
    /\ env \in Hosts
    /\ loaded = FALSE
    /\ supported_tags = <<>>
    /\ supported_tags_noarch = <<>>
    /\ last = NoCall

\* import pip.pep425tags: the two module-level assignments
ImportModule ==
    /\ ~loaded
    /\ loaded' = TRUE
    /\ supported_tags' = get_supported(NoVersions, FALSE, env)
    /\ supported_tags_noarch' = get_supported(NoVersions, TRUE, env)
    /\ UNCHANGED <<env, last>>

\* A get_supported that rebinds the module-level lists on every call.
CallGetSupportedRefreshing(versions, noarch) ==
    /\ loaded
    /\ last = NoCall
    /\ last' = [NoCall EXCEPT
                  !.op = "get_supported",
                  !.versions = versions,
                  !.noarch = noarch,
                  !.raised = get_supported_raises(versions, noarch),
                  !.tags = IF get_supported_raises(versions, noarch)
                           THEN <<>>
                           ELSE get_supported(versions, noarch, env)]
    /\ supported_tags' = get_supported(NoVersions, FALSE, env)
    /\ supported_tags_noarch' = get_supported(NoVersions, TRUE, env)
    /\ UNCHANGED <<env, loaded>>

CallGetSupported(versions, noarch) ==
    /\ loaded
    /\ last = NoCall
    /\ last' = [NoCall EXCEPT
                  !.op = "get_supported",
                  !.versions = versions,
                  !.noarch = noarch,
                  !.raised = get_supported_raises(versions, noarch),
                  !.tags = IF get_supported_raises(versions, noarch)
                           THEN <<>>
                           ELSE get_supported(versions, noarch, env)]
    /\ UNCHANGED <<env, loaded, supported_tags, supported_tags_noarch>>

CallGetPlatforms ==
    /\ loaded
    /\ last = NoCall
    /\ last' = [NoCall EXCEPT !.op = "get_platforms", !.platforms = get_platforms(env)]
    /\ UNCHANGED <<env, loaded, supported_tags, supported_tags_noarch>>

CallGetAbiTag ==
    /\ loaded
    /\ last = NoCall
    /\ last' = [NoCall EXCEPT !.op = "get_abi_tag", !.abi = get_abi_tag(env)]
    /\ UNCHANGED <<env, loaded, supported_tags, supported_tags_noarch>>

\* The caller is done with the value the last call returned.
Return ==
    /\ last # NoCall
    /\ last' = NoCall
    /\ UNCHANGED <<env, loaded, supported_tags, supported_tags_noarch>>

\* The interpreter facts change under the loaded module (sysconfig or sys
\* patched, as a test suite does); the operating system stays.
EnvChange(i) ==
    /\ loaded
    /\ last = NoCall
    /\ env' = Host(i, [sys_platform |-> env.sys_platform, plat |-> env.plat,
                       linux_specific_platform |-> env.linux_specific_platform])
    /\ env' # env
    /\ env' \in Hosts
    /\ UNCHANGED last
    /\ UNCHANGED <<loaded, supported_tags, supported_tags_noarch>>

Next ==
    \/ ImportModule
    \/ \E versions \in VersionArgs, noarch \in BOOLEAN : CallGetSupported(versions, noarch)
    \/ CallGetPlatforms
    \/ CallGetAbiTag
    \/ Return
    \/ \E i \in Interpreters : EnvChange(i)

Spec == Init /\ [][Next]_vars


(***************************************************************************)
(* Properties                                                              *)
(***************************************************************************)

\* A call of get_supported has returned a list.
Returned == last.op = "get_supported" /\ ~last.raised

\* The version list the returned list was built from.
VersionsUsed ==
    IF last.versions = NoVersions THEN derived_versions(env) ELSE last.versions

IsGeneric(tag) == StartsWith(tag[1], "py")

\* The version digits of a tag's interpreter field.
TagVersion(tag) ==
    IF IsGeneric(tag)
    THEN SubSeq(tag[1], 3, Len(tag[1]))
    ELSE SubSeq(tag[1], Len(get_abbr_impl(env)) + 1, Len(tag[1]))

\* The tier of a tag, read off its fields.  ('py' + one digit, 'none',
\* 'any') fits the description of an ABI-agnostic binary tag (tier 2, its
\* platform being 'any') and of a generic-pure tag (tier 4); reading says
\* which of the two it is taken for.
Tier(tag, reading) ==
    IF ~IsGeneric(tag)
    THEN IF tag[2] = "none" /\ tag[3] = "any" THEN 3 ELSE 1
    ELSE IF tag[3] # "any" THEN 2
    ELSE IF Len(tag[1]) = 3 THEN reading
    ELSE 4

\* t1, emitted before t2, is less specific than t2: it is of a later tier,
\* or of the same tier and of an older version while t2 is of the current one.
LessSpecific(t1, t2, reading) ==
    \/ Tier(t1, reading) > Tier(t2, reading)
    \/ /\ Tier(t1, reading) = Tier(t2, reading)
       /\ Len(TagVersion(t1)) > 1
       /\ TagVersion(t1) # VersionsUsed[1]
       /\ TagVersion(t2) = VersionsUsed[1]

OrderedBySpecificity(tags, reading) ==
    \A i \in 1..Len(tags) : \A j \in (i + 1)..Len(tags) :
        ~LessSpecific(tags[i], tags[j], reading)

\* C1: in every list get_supported returns, a tag that comes before another
\* is never less specific than it (exact-ABI binary, ABI-agnostic binary,
\* implementation-pure, generic-pure, each tier by version recency), under
\* at least one reading of the major-only generic tag.
C1_OrderedBySpecificity ==
    Returned => \E reading \in {2, 4} : OrderedBySpecificity(last.tags, reading)

\* C2: every tag of an arch-independent list, returned or cached, has
\* platform 'any'.
C2_NoarchPlatformAny ==
    /\ (Returned /\ last.noarch) =>
           \A i \in 1..Len(last.tags) : last.tags[i][3] = "any"
    /\ loaded =>
           \A i \in 1..Len(supported_tags_noarch) : supported_tags_noarch[i][3] = "any"

\* An arch-independent list was returned on a host whose platform list
\* holds expanded, platform-specific identifiers.
C2_Witness ==
    /\ Returned /\ last.noarch /\ Len(last.tags) > 0
    /\ env.sys_platform = "darwin"
    /\ Len(get_arches(env)) > 2

SafeAlphabet == AsciiLower \o Digits \o "_"

IsSafe(s) == \A i \in 1..Len(s) : InStr(CharAt(s, i), SafeAlphabet)

\* C4: every field of every tag get_supported returns is made of the
\* characters a-z, 0-9 and _ only.
C4_SafeAlphabet ==
    Returned =>
        \A i \in 1..Len(last.tags) :
            IsSafe(last.tags[i][1]) /\ IsSafe(last.tags[i][2]) /\ IsSafe(last.tags[i][3])


\* The last n tags of a list.
LastTags(tags, n) == SubSeq(tags, Len(tags) - n + 1, Len(tags))

\* The host of the scenario: default family, version "38", no SOABI, no
\* debug build, wide unicode, Linux with base platform linux_x86_64; a
\* native-arch list has been returned for it.
Scenario ==
    /\ Returned /\ ~last.noarch
    /\ last.versions \in {NoVersions, <<"38">>}
    /\ get_abbr_impl(env) = "cp"
    /\ get_impl_ver(env) = "38"
    /\ Falsy(env.config.SOABI)
    /\ ~(env.has_pydebug /\ env.pydebug)
    /\ env.maxunicode = WideMaxUnicode
    /\ StartsWith(env.sys_platform, "linux")
    /\ normalize(env.plat) = "linux_x86_64"

ScenarioTail ==
    << <<"cp38", "none", "any">>, <<"cp3", "none", "any">>,
       <<"py38", "none", "any">>, <<"py3", "none", "any">> >>

\* C3 as stated: in the scenario the first tag is ("cp38", synthesized
\* ABI, "linux_x86_64") and the last four tags are cp38, cp3, py38, py3 on
\* none/any.
C3_AsStated ==
    Scenario =>
        /\ last.tags[1][1] = "cp38"
        /\ last.tags[1][3] = "linux_x86_64"
        /\ LastTags(last.tags, 4) = ScenarioTail

\* C3 amended: in the scenario the first tag is ("cp38", "cp38mu", P), P
\* being the first identifier of get_platforms(): linux_x86_64 extended by
\* the distribution and its version (or by unknown_distribution_
\* unknown_version), never linux_x86_64 itself, whose tag comes later in
\* the same ABI block; for the version list ["38"] the last four tags are
\* cp38, cp3, py38, py3 on none/any, and with versions absent the list
\* runs down to ("py30", "none", "any").
C3_ScenarioAmended ==
    Scenario =>
        /\ last.tags[1][1] = "cp38"
        /\ last.tags[1][2] = "cp38mu"
        /\ StartsWith(last.tags[1][3], "linux_x86_64_")
        /\ \/ last.tags[1][3] = "linux_x86_64_unknown_distribution_unknown_version"
           \/ /\ env.linux_specific_platform # NoneTuple
              /\ last.tags[1][3] =
                     normalize("linux_x86_64_" \o env.linux_specific_platform[1]
                               \o "_" \o env.linux_specific_platform[3])
        /\ \E k \in 2..Len(last.tags) :
              /\ last.tags[k] = <<"cp38", "cp38mu", "linux_x86_64">>
              /\ \A j \in 1..k : last.tags[j][2] = "cp38mu"
        /\ last.versions = <<"38">> => LastTags(last.tags, 4) = ScenarioTail
        /\ last.versions = NoVersions =>
              LastTags(last.tags, 1) = << <<"py30", "none", "any">> >>

\* The scenario's list for ["38"] on a host whose distribution is known.
C3_Witness ==
    /\ Scenario
    /\ last.versions = <<"38">>
    /\ env.linux_specific_platform # NoneTuple
    /\ last.tags[1] = <<"cp38", "cp38mu", "linux_x86_64_ubuntu_14_04">>

\* The closure table of architecture compatibility, in the order of its
\* entries.
ClosureTable ==
    << [members |-> {"i386", "ppc"}, tag |-> "fat"],
       [members |-> {"i386", "x86_64"}, tag |-> "intel"],
       [members |-> {"i386", "ppc", "x86_64"}, tag |-> "fat3"],
       [members |-> {"ppc64", "x86_64"}, tag |-> "fat64"],
       [members |-> {"i386", "x86_64", "intel", "ppc", "ppc64"}, tag |-> "universal"] >>

Closure(arch) ==
    <<arch>> \o [i \in 1..Len(SelectSeq(ClosureTable, LAMBDA r : arch \in r.members)) |->
                    SelectSeq(ClosureTable, LAMBDA r : arch \in r.members)[i].tag]

\* name_major_m_token for m from minor down to 0 and, for each m, every
\* token of the closure of arch.
Expansion(name, major, minor, arch) ==
    LET n == Len(Closure(arch))
    IN  [k \in 1..((minor + 1) * n) |->
            name \o "_" \o major \o "_" \o IntToStr(minor - ((k - 1) \div n))
                 \o "_" \o Closure(arch)[((k - 1) % n) + 1]]

\* The ways s reads as name_major_minor_arch.
Parses(s) ==
    {<<SubSeq(s, 1, c[1] - 1), SubSeq(s, c[1] + 1, c[2] - 1),
       SubSeq(s, c[2] + 1, c[3] - 1), SubSeq(s, c[3] + 1, Len(s))>> :
        c \in OsxArchCuts(s)}

PlatformsOf(tags) == [i \in 1..Len(tags) |-> tags[i][3]]

\* C5: on darwin, a platform identifier that parses as
\* name_major_minor_arch is expanded by get_supported into exactly the
\* sequence name_major_m_token, m from the reported minor down to 0, token
\* over arch followed by the superset tags of the closure table that hold
\* arch; the list holds no other platform than these and 'any'.
C5_DarwinExpansion ==
    (Returned /\ ~last.noarch /\ env.sys_platform = "darwin"
       /\ Parses(normalize(env.plat)) # {}) =>
        \E p \in Parses(normalize(env.plat)) :
            LET E == Expansion(p[1], p[2], StrToInt(p[3]), p[4])
            IN  /\ Len(last.tags) > Len(E)
                /\ PlatformsOf(SubSeq(last.tags, 1, Len(E) + 1)) = E \o <<"any">>
                /\ \A i \in 1..Len(last.tags) :
                      \/ last.tags[i][3] = "any"
                      \/ \E k \in 1..Len(E) : E[k] = last.tags[i][3]

\* The list for macosx_10_9_x86_64: minors 9 down to 0, each with x86_64,
\* intel, fat3, fat64 and universal.
C5_Witness ==
    /\ Returned /\ ~last.noarch /\ env.sys_platform = "darwin"
    /\ normalize(env.plat) = "macosx_10_9_x86_64"
    /\ PlatformsOf(SubSeq(last.tags, 1, 6)) =
          <<"macosx_10_9_x86_64", "macosx_10_9_intel", "macosx_10_9_fat3",
            "macosx_10_9_fat64", "macosx_10_9_universal", "macosx_10_8_x86_64">>
    /\ last.tags[50][3] = "macosx_10_0_universal"
    /\ last.tags[51][3] = "any"


\* The version strings of the generic-pure tags that close an
\* arch-independent list of 2n + 2 tags: py<v1>, py<major>, py<v2>, ...
\* without the major-only tag.
VersionsOf(tags) ==
    LET n    == (Len(tags) \div 2) - 1
        half == SubSeq(tags, n + 2, Len(tags))
    IN  [k \in 1..n |-> TagVersion(half[IF k = 1 THEN 1 ELSE k + 1])]

\* C6: with versions absent the version list is derived from the
\* implementation version tuple: all components but the last are kept and
\* the last counts down to zero, so there are last + 1 entries, the current
\* version first; the tuple (3, 3) gives exactly 33, 32, 31, 30.
C6_DerivedVersions ==
    (Returned /\ last.noarch /\ last.versions = NoVersions) =>
        LET t     == get_impl_version_info(env)
            n     == t[Len(t)]
            front == JoinInts(SubSeq(t, 1, Len(t) - 1))
            vs    == VersionsOf(last.tags)
        IN  /\ Len(last.tags) = 2 * (n + 1) + 2
            /\ Len(vs) = n + 1
            /\ vs[1] = JoinInts(t)
            /\ \A k \in 1..(n + 1) : vs[k] = front \o IntToStr(n + 1 - k)
            /\ \A k \in 1..n : StrToInt(vs[k]) > StrToInt(vs[k + 1])
            /\ t = <<3, 3>> => vs = <<"33", "32", "31", "30">>

\* The derived list of a host whose version tuple is (3, 3).
C6_Witness ==
    /\ Returned /\ last.noarch /\ last.versions = NoVersions
    /\ get_impl_version_info(env) = <<3, 3>>
    /\ VersionsOf(last.tags) = <<"33", "32", "31", "30">>

\* C7: on a host with the pypy version marker the implementation version
\* tuple is (language major, pypy major, pypy minor), the implementation
\* version its digits, and the derived version list counts the pypy minor
\* down; on every other host the tuple is (language major, language minor).
C7_PyPyThreeComponents ==
    (Returned /\ last.noarch /\ last.versions = NoVersions) =>
        /\ env.has_pypy_version_info =>
              /\ get_impl_version_info(env) =
                    <<env.version_info[1], env.pypy_version_info[1],
                      env.pypy_version_info[2]>>
              /\ get_impl_ver(env) = JoinInts(get_impl_version_info(env))
              /\ Len(VersionsOf(last.tags)) = env.pypy_version_info[2] + 1
        /\ ~env.has_pypy_version_info =>
              get_impl_version_info(env) = <<env.version_info[1], env.version_info[2]>>

\* The signature transliterated to the safe alphabet.
Transliterated(soabi) == normalize(soabi)

\* C8: when SOABI is set and non-empty, get_abi_tag never returns None: a
\* 'cpython-' signature gives 'cp' followed by its version part, any other
\* signature is transliterated; and that tag is the ABI of the first tag of
\* a native-arch list.
C8_AbiTagPresent ==
    ~Falsy(env.config.SOABI) =>
        LET soabi == env.config.SOABI
            rest  == SplitOnceLast(soabi, "-")
        IN  /\ last.op = "get_abi_tag" =>
                  /\ last.abi # None
                  /\ StartsWith(soabi, "cpython-") =>
                        StartsWith(last.abi, "cp" \o SplitFirst(rest, "-"))
                  /\ ~StartsWith(soabi, "cpython-") =>
                        last.abi = Transliterated(soabi)
            /\ (Returned /\ ~last.noarch) =>
                  /\ StartsWith(soabi, "cpython-") =>
                        StartsWith(last.tags[1][2], "cp" \o SplitFirst(rest, "-"))
                  /\ ~StartsWith(soabi, "cpython-") =>
                        last.tags[1][2] = Transliterated(soabi)

C10_CacheFrozen ==
    [][/\ loaded => /\ supported_tags' = supported_tags
                    /\ supported_tags_noarch' = supported_tags_noarch
       /\ (~loaded /\ loaded') =>
              /\ supported_tags' = get_supported(NoVersions, FALSE, env)
              /\ supported_tags_noarch' = get_supported(NoVersions, TRUE, env)
       /\ (~loaded /\ ~loaded') =>
              /\ supported_tags' = <<>>
              /\ supported_tags_noarch' = <<>>]_vars

\* After a change of the interpreter facts, get_supported() has returned a
\* list that differs from the cached one.
C10_Witness ==
    /\ loaded
    /\ Returned /\ ~last.noarch /\ last.versions = NoVersions
    /\ last.tags # supported_tags
    /\ supported_tags # <<>>

=============================================================================
